---------------------------- MODULE Spec2Model ----------------------------
(***************************************************************************)
(* X-coordinate-only arithmetic on Curve25519 (src/js/curve.js): affine    *)
(* recovery X, pointDouble, pointAdd1 and the Montgomery ladder pointMult. *)
(*                                                                         *)
(* JavaScript BigInt values do not fit TLC's 32-bit integers, so a field   *)
(* element is a little-endian sequence of NLimbs limbs.  Every value the   *)
(* exported functions return has gone through field.reduce, and between    *)
(* two reductions curve.js only adds, subtracts and multiplies, so         *)
(* computing each intermediate value modulo p gives exactly the values the *)
(* BigInt code returns.                                                    *)
(***************************************************************************)
EXTENDS Integers, Sequences, FiniteSets, TLC

(***************************************************************************)
(* field.js: arithmetic modulo p = 2^255 - 19.                             *)
(* Limbs 1..NLimbs-1 hold LimbBits bits, the top limb the remaining        *)
(* TopBits bits, so a normalised limb sequence is a number below 2^255.    *)
(***************************************************************************)
LimbBits == 13
NLimbs == 20
Base == 2^LimbBits
TopBits == 255 - LimbBits * (NLimbs - 1)
TopBase == 2^TopBits
\* 2^255 = 19 (mod p), hence Base^NLimbs = 2^(LimbBits - TopBits) * 19
PrimeC == 19
WrapC == PrimeC * 2^(LimbBits - TopBits)

Radix(k) == IF k = NLimbs THEN TopBase ELSE Base

\* limb k of p
PLimb(k) == IF k = 1 THEN Base - PrimeC ELSE Radix(k) - 1

Zeros == [k \in 1..(NLimbs - 1) |-> 0] \o <<>>

\* The one element of a set of one element.  {F(v) : v \in {e}} evaluates e
\* once and hands its value to F, however often F uses it.
Only(S) == CHOOSE r \in S : TRUE

\* a small non-negative integer (below 2^31) as a field element
FromInt(m) ==
  [k \in 1..NLimbs |->
     IF k = 1 THEN m % Base
     ELSE IF k = 2 THEN (m \div Base) % Base
     ELSE IF k = 3 THEN m \div (Base * Base)
     ELSE 0] \o <<>>

Zero == FromInt(0)
One == FromInt(1)

IsNormal(T) == \A k \in 1..NLimbs : T[k] < Radix(k)

\* one carry pass: every limb keeps its low bits and receives the carry of the
\* limb below; the carry out of bit 255 re-enters limb 1 multiplied by 19
CarryPass(T) ==
  [k \in 1..NLimbs |->
     (T[k] % Radix(k))
       + (IF k = 1 THEN PrimeC * (T[NLimbs] \div TopBase) ELSE T[k-1] \div Base)] \o <<>>

RECURSIVE Normalise(_)
Normalise(T) ==
  Only({IF IsNormal(v) THEN v ELSE Normalise(CarryPass(v)) : v \in {T}})

\* field.reduce: the canonical representative in [0, p) of the number with the
\* non-negative limbs T
reduce(T) ==
  Only({IF \A k \in 1..NLimbs : s[k] >= PLimb(k)
          THEN [k \in 1..NLimbs |-> s[k] - PLimb(k)] \o <<>>
          ELSE s : s \in {Normalise(T)}})

Add(a, b) ==
  Only({reduce([k \in 1..NLimbs |-> va[k] + vb[k]] \o <<>>) : va \in {a}, vb \in {b}})

\* a - b, computed as a + 2p - b so that no limb goes negative
Sub(a, b) ==
  Only({reduce([k \in 1..NLimbs |-> va[k] + 2 * PLimb(k) - vb[k]] \o <<>>) :
          va \in {a}, vb \in {b}})

\* column k of the schoolbook product of a and b; bz is b with NLimbs-1 zero
\* limbs on either side
Col(a, bz, k) ==
    a[1] * bz[k + 19] + a[2] * bz[k + 18] + a[3] * bz[k + 17] + a[4] * bz[k + 16]
  + a[5] * bz[k + 15] + a[6] * bz[k + 14] + a[7] * bz[k + 13] + a[8] * bz[k + 12]
  + a[9] * bz[k + 11] + a[10] * bz[k + 10] + a[11] * bz[k + 9] + a[12] * bz[k + 8]
  + a[13] * bz[k + 7] + a[14] * bz[k + 6] + a[15] * bz[k + 5] + a[16] * bz[k + 4]
  + a[17] * bz[k + 3] + a[18] * bz[k + 2] + a[19] * bz[k + 1] + a[20] * bz[k]

\* the columns of the product, and two empty ones
Columns(a, bz) ==
  [k \in 1..(2 * NLimbs + 1) |-> IF k < 2 * NLimbs THEN Col(a, bz, k) ELSE 0] \o <<>>

\* every column split into three limbs, so that no sum overflows
Split(C) ==
  [k \in 1..(2 * NLimbs + 1) |->
     (C[k] % Base)
       + (IF k > 1 THEN (C[k-1] \div Base) % Base ELSE 0)
       + (IF k > 2 THEN C[k-2] \div (Base * Base) ELSE 0)] \o <<>>

\* limb NLimbs+k weighs WrapC times limb k
Wrap(D) ==
  [k \in 1..NLimbs |->
     D[k] + WrapC * D[k + NLimbs]
       + (IF k = 1 THEN WrapC * WrapC * D[2 * NLimbs + 1] ELSE 0)] \o <<>>

\* a * b mod p, for a and b in [0, p)
Mul(a, b) ==
  Only({reduce(Wrap(d)) :
          d \in {Split(c) : c \in {Columns(va, vbz) :
                                     va \in {a}, vbz \in {Zeros \o b \o Zeros}}}})

\* field.square
square(a) == Only({Mul(v, v) : v \in {a}})

IsFieldElement(v) ==
  /\ DOMAIN v = 1..NLimbs
  /\ IsNormal(v)
  /\ \E k \in 1..NLimbs : v[k] < PLimb(k)

RECURSIVE SquareTimes(_, _)
\* a^(2^m), by halving m
SquareTimes(a, m) ==
  Only({IF m = 0 THEN v
        ELSE IF m = 1 THEN Mul(v, v)
        ELSE SquareTimes(SquareTimes(v, m \div 2), m - (m \div 2)) : v \in {a}})

\* An addition chain for p - 2 = 2^255 - 21.  With vals[1] = 1 and vals[2] = v,
\* stage <<i, m, j>> appends vals[i]^(2^m) * vals[j].
InverseChain ==
  << <<2, 1, 1>>,      \*  3: v^2
     <<3, 2, 2>>,      \*  4: v^9
     <<4, 0, 3>>,      \*  5: v^11
     <<5, 1, 4>>,      \*  6: v^(2^5 - 1)
     <<6, 5, 6>>,      \*  7: v^(2^10 - 1)
     <<7, 10, 7>>,     \*  8: v^(2^20 - 1)
     <<8, 20, 8>>,     \*  9: v^(2^40 - 1)
     <<9, 10, 7>>,     \* 10: v^(2^50 - 1)
     <<10, 50, 10>>,   \* 11: v^(2^100 - 1)
     <<11, 100, 11>>,  \* 12: v^(2^200 - 1)
     <<12, 50, 10>>,   \* 13: v^(2^250 - 1)
     <<13, 5, 5>> >>   \* 14: v^(2^255 - 21)

RECURSIVE RunChain(_, _)
RunChain(vals, k) ==
  IF k > Len(InverseChain) THEN vals[Len(vals)]
  ELSE Only({RunChain(Append(vals, w), k + 1) :
               w \in {Mul(SquareTimes(vals[InverseChain[k][1]], InverseChain[k][2]),
                          vals[InverseChain[k][3]])}})

\* v^(p-2), the inverse of v when v is not 0
PowPMinus2(v) == RunChain(<<One, v>>, 1)

\* An outcome of a call that can fail: err is TRUE when the call raised.
Raised == [err |-> TRUE, value |-> <<>>]
Returned(v) == [err |-> FALSE, value |-> v]

\* field.inverseOf: the inverse modulo p; inverting 0 is an error
inverseOf(v) == IF v = Zero THEN Raised ELSE Returned(PowPMinus2(v))

(***************************************************************************)
(* curve.js                                                                *)
(***************************************************************************)
curveA == 486662
basePointX == 9
doubleA24 == (curveA + 2) \div 4
multA24 == (curveA - 2) \div 4

Ratio(x, z) == [x |-> x, z |-> z]

\* Fault: X catches the error of inverseOf and answers 0.
XMasking(x, z) ==
  Only({IF inv.err THEN Returned(Zero) ELSE Returned(reduce(Mul(x, inv.value))) :
          inv \in {inverseOf(z)}})

\* X = (x, z) => field.reduce(x * field.inverseOf(z)); an error raised by
\* inverseOf is not caught
X(x, z) ==
  Only({IF inv.err THEN Raised ELSE Returned(reduce(Mul(x, inv.value))) :
          inv \in {inverseOf(z)}})

\* Fault: pointDouble uses the ladder's constant (A-2)/4 for (A+2)/4.
pointDoubleLadderA24(x, z) ==
  LET x2    == Mul(square(Add(x, z)), square(Sub(x, z)))
      z2_1  == Mul(FromInt(4), Mul(x, z))
      z2_23 == Add(square(Sub(x, z)), Mul(FromInt(multA24), z2_1))
  IN Ratio(x2, Mul(z2_1, z2_23))

\* Fault: pointDouble leaves the factor (x-z)^2 out of x'.
pointDoubleHalfX(x, z) ==
  LET z2_1  == Mul(FromInt(4), Mul(x, z))
      z2_23 == Add(square(Sub(x, z)), Mul(FromInt(doubleA24), z2_1))
  IN Ratio(square(Add(x, z)), Mul(z2_1, z2_23))

pointDouble(x, z) ==
  LET x2_1  == square(Add(x, z))
      x2_2  == square(Sub(x, z))
      x2    == reduce(Mul(x2_1, x2_2))
      z2_1  == reduce(Mul(FromInt(4), Mul(x, z)))
      z2_2  == Mul(reduce(Sub(x, z)), reduce(Sub(x, z)))
      z2_3  == Mul(FromInt(doubleA24), z2_1)
      z2_23 == Add(z2_2, z2_3)
      z2    == Mul(z2_1, z2_23)
  IN Ratio(reduce(x2), reduce(z2))

\* Fault: pointAdd1 pairs prevX with x'' and prevZ with z''.
pointAdd1PrevCrossed(x, z, prevX, prevZ) ==
  LET baseX == FromInt(basePointX)
      xa    == Mul(Sub(x, z), Add(baseX, One))
      xb    == Mul(Add(x, z), Sub(baseX, One))
  IN Ratio(Mul(prevX, square(Add(xa, xb))), Mul(prevZ, square(Sub(xa, xb))))

pointAdd1(x, z, prevX, prevZ) ==
  LET baseX    == FromInt(basePointX)
      baseZ    == One
      xa       == Mul(reduce(Sub(x, z)), Add(baseX, baseZ))
      xb       == reduce(Mul(Add(x, z), Sub(baseX, baseZ)))
      xc       == reduce(square(Add(xa, xb)))
      x_nplus1 == Mul(prevZ, xc)
      zc       == reduce(square(Sub(xa, xb)))
      z_nplus1 == Mul(prevX, zc)
  IN Ratio(reduce(x_nplus1), reduce(z_nplus1))

cswap(swap, a, b) == IF swap THEN <<b, a>> ELSE <<a, b>>

\* A scalar is the set of the positions of its 1 bits: n = sum of 2^e, e in n.
ScalarOf(m) == {e \in 0..30 : (m \div 2^e) % 2 = 1}
\* (n >> t) & 1n
Bit(n, t) == IF t \in n THEN 1 ELSE 0
\* k_t !== 0n ? 1 : 0
Flag(k_t) == IF k_t # 0 THEN 1 ELSE 0
\* swap ^= flag
Xor(a, b) == IF a = b THEN 0 ELSE 1
\* the index of the first bit the loop of pointMult reads
TopBit == 255

\* Fault: z_3 is computed without the factor x_1.
CombinedValuesNoX1(x1, s) ==
  LET A == Add(s.x_2, s.z_2)
      B == Sub(s.x_2, s.z_2)
      C == Add(s.x_3, s.z_3)
      D == Sub(s.x_3, s.z_3)
  IN Only({LET E == Sub(m.AA, m.BB)
           IN [x_2 |-> reduce(Mul(m.AA, m.BB)),
               z_2 |-> reduce(Mul(E, Add(m.AA, Mul(FromInt(multA24), E)))),
               x_3 |-> reduce(Mul(Add(m.DA, m.CB), Add(m.DA, m.CB))),
               z_3 |-> reduce(Mul(Sub(m.DA, m.CB), Sub(m.DA, m.CB)))] :
             m \in {[AA |-> Mul(A, A), BB |-> Mul(B, B),
                      DA |-> Mul(D, A), CB |-> Mul(C, B)]}})

\* Fault: z_2 is computed without the leading factor E.
CombinedValuesNoE(x1, s) ==
  LET A == Add(s.x_2, s.z_2)
      B == Sub(s.x_2, s.z_2)
      C == Add(s.x_3, s.z_3)
      D == Sub(s.x_3, s.z_3)
  IN Only({LET E == Sub(m.AA, m.BB)
           IN [x_2 |-> reduce(Mul(m.AA, m.BB)),
               z_2 |-> reduce(Add(m.AA, Mul(FromInt(multA24), E))),
               x_3 |-> reduce(Mul(Add(m.DA, m.CB), Add(m.DA, m.CB))),
               z_3 |-> reduce(Mul(Mul(x1, Sub(m.DA, m.CB)), Sub(m.DA, m.CB)))] :
             m \in {[AA |-> Mul(A, A), BB |-> Mul(B, B),
                      DA |-> Mul(D, A), CB |-> Mul(C, B)]}})

\* lines 119-131: the combined doubling and differential addition; the four
\* products AA, BB, DA and CB are computed once, as the record m
CombinedValues(x1, s) ==
  LET A == Add(s.x_2, s.z_2)
      B == Sub(s.x_2, s.z_2)
      C == Add(s.x_3, s.z_3)
      D == Sub(s.x_3, s.z_3)
  IN Only({LET E == Sub(m.AA, m.BB)
           IN [x_2 |-> reduce(Mul(m.AA, m.BB)),
               z_2 |-> reduce(Mul(E, Add(m.AA, Mul(FromInt(multA24), E)))),
               x_3 |-> reduce(Mul(Add(m.DA, m.CB), Add(m.DA, m.CB))),
               z_3 |-> reduce(Mul(Mul(x1, Sub(m.DA, m.CB)), Sub(m.DA, m.CB)))] :
             m \in {[AA |-> Mul(A, A), BB |-> Mul(B, B),
                      DA |-> Mul(D, A), CB |-> Mul(C, B)]}})

(***************************************************************************)
(* A caller runs a short program of calls to the exported functions.  out  *)
(* holds the values it has: out[1] an affine X-coordinate and out[2] a     *)
(* ratio it starts with, then out[i+2] the result of call i.               *)
(***************************************************************************)
VARIABLES
  prog,      \* the calls to make: [op, a1, a2, n], a1 and a2 indices into out
  ip,        \* the index of the next call
  out,       \* the inputs and the results so far
  pc,        \* "idle", or the position inside pointMult: "loop", "step"
  n,         \* pointMult: the scalar
  t,         \* pointMult: the loop index
  x_1,       \* pointMult: the local x_1
  acc,       \* pointMult: the locals x_2, z_2, x_3, z_3, as a record
  swap,      \* pointMult: the local swap
  iters,     \* combined steps executed by the current call of pointMult
  invCalls   \* calls of field.inverseOf made so far

vars == <<prog, ip, out, pc, n, t, x_1, acc, swap, iters, invCalls>>
ladder == <<n, t, x_1, acc, swap, iters>>

Accumulators(x2, z2, x3, z3) == [x_2 |-> x2, z_2 |-> z2, x_3 |-> x3, z_3 |-> z3]

\* Fault: only the x components are exchanged.
SwappedXOnly(sw, s) ==
  Accumulators(cswap(sw # 0, s.x_2, s.x_3)[1], s.z_2,
               cswap(sw # 0, s.x_2, s.x_3)[2], s.z_3)

\* lines 113-116: the accumulators after the conditional swap for bit k_t
Swapped(sw, s) ==
  Accumulators(cswap(sw # 0, s.x_2, s.x_3)[1], cswap(sw # 0, s.z_2, s.z_3)[1],
               cswap(sw # 0, s.x_2, s.x_3)[2], cswap(sw # 0, s.z_2, s.z_3)[2])

PM(a1, m) == [op |-> "pointMult", a1 |-> a1, a2 |-> 0, n |-> m]
XR(a1) == [op |-> "X", a1 |-> a1, a2 |-> 0, n |-> {}]
PD(a1) == [op |-> "pointDouble", a1 |-> a1, a2 |-> 0, n |-> {}]
PA(a1, a2) == [op |-> "pointAdd1", a1 |-> a1, a2 |-> a2, n |-> {}]

NextOp == IF pc = "idle" /\ ip <= Len(prog) THEN prog[ip].op ELSE "none"
Cur == prog[ip]

\* pointMult, lines 105-110
CallPointMult ==
  /\ NextOp = "pointMult"
  /\ ~out[Cur.a1].err
  /\ n' = Cur.n
  /\ x_1' = out[Cur.a1].value
  /\ acc' = Accumulators(One, Zero, out[Cur.a1].value, One)
  /\ swap' = 0
  /\ t' = TopBit
  /\ iters' = 0
  /\ pc' = "loop"
  /\ UNCHANGED <<prog, ip, out, invCalls>>

\* pointMult, lines 112-117: the loop test and the conditional swap
CondSwap ==
  /\ pc = "loop"
  /\ t >= 0
  /\ acc' = Swapped(Xor(swap, Flag(Bit(n, t))), acc)
  /\ swap' = Flag(Bit(n, t))
  /\ pc' = "step"
  /\ UNCHANGED <<prog, ip, out, n, t, x_1, iters, invCalls>>

\* Fault: the step brings (x_2, z_2) to affine form with X, which calls
\* field.inverseOf and raises when z_2 is 0.
CombinedStepNormalising ==
  /\ pc = "step"
  /\ LET r == X(acc.x_2, acc.z_2)
     IN IF r.err
          THEN /\ pc' = "raised"
               /\ UNCHANGED <<acc, t, iters>>
          ELSE /\ acc' = CombinedValues(x_1, [acc EXCEPT !.x_2 = r.value, !.z_2 = One])
               /\ t' = t - 1
               /\ iters' = iters + 1
               /\ pc' = "loop"
  /\ invCalls' = invCalls + 1
  /\ UNCHANGED <<prog, ip, out, n, x_1, swap>>

\* pointMult, lines 119-132: the combined step and t--
CombinedStep ==
  /\ pc = "step"
  /\ acc' = CombinedValues(x_1, acc)
  /\ t' = t - 1
  /\ iters' = iters + 1
  /\ pc' = "loop"
  /\ UNCHANGED <<prog, ip, out, n, x_1, swap, invCalls>>

\* Fault: the final conditional swap is left out.
ReturnNoSwap ==
  /\ pc = "loop"
  /\ t < 0
  /\ out' = Append(out, Ratio(acc.x_2, acc.z_2))
  /\ ip' = ip + 1
  /\ pc' = "idle"
  /\ UNCHANGED <<prog, n, t, x_1, acc, swap, iters, invCalls>>

\* pointMult, lines 133-136: the final swap and the return
Return ==
  /\ pc = "loop"
  /\ t < 0
  /\ acc' = [acc EXCEPT !.x_2 = cswap(swap # 0, acc.x_2, acc.x_3)[1],
                        !.z_2 = cswap(swap # 0, acc.z_2, acc.z_3)[1]]
  /\ out' = Append(out, Ratio(acc'.x_2, acc'.z_2))
  /\ ip' = ip + 1
  /\ pc' = "idle"
  /\ UNCHANGED <<prog, n, t, x_1, swap, iters, invCalls>>

\* X(x, z) on a ratio the caller holds
CallX ==
  /\ NextOp = "X"
  /\ out' = Append(out, X(out[Cur.a1].x, out[Cur.a1].z))
  /\ invCalls' = invCalls + 1
  /\ ip' = ip + 1
  /\ UNCHANGED <<prog, pc, ladder>>

CallPointDouble ==
  /\ NextOp = "pointDouble"
  /\ out' = Append(out, pointDouble(out[Cur.a1].x, out[Cur.a1].z))
  /\ ip' = ip + 1
  /\ UNCHANGED <<prog, pc, ladder, invCalls>>

CallPointAdd1 ==
  /\ NextOp = "pointAdd1"
  /\ out' = Append(out, pointAdd1(out[Cur.a1].x, out[Cur.a1].z,
                                  out[Cur.a2].x, out[Cur.a2].z))
  /\ ip' = ip + 1
  /\ UNCHANGED <<prog, pc, ladder, invCalls>>

\* before the first call of pointMult its locals do not exist
Start(in1, in2, p) ==
  /\ prog = p
  /\ ip = 1
  /\ out = <<Returned(in1), in2>>
  /\ pc = "idle"
  /\ n = {}
  /\ t = 0
  /\ x_1 = Zero
  /\ acc = Accumulators(Zero, Zero, Zero, Zero)
  /\ swap = 0
  /\ iters = 0
  /\ invCalls = 0

NoRatio == Ratio(Zero, Zero)

(***************************************************************************)
(* Spec: pointMult(X, n), then X on its result.                            *)
(***************************************************************************)
MaxX == 2
MaxScalar == 3

\* -m mod p
Neg(m) == Sub(Zero, FromInt(m))

MultXs == {FromInt(v) : v \in 0..MaxX} \cup {FromInt(basePointX), Neg(1)}
\* small scalars, then 2^255 and 2^254 + 2^252 + 1
MultScalars ==
  {ScalarOf(m) : m \in 0..MaxScalar} \cup {{255}, {254, 252, 0}}

MultProg(m) == <<PM(1, m), XR(3)>>

Init ==
  \E Xv \in MultXs, m \in MultScalars : Start(Xv, NoRatio, MultProg(m))

Next == CallPointMult \/ CondSwap \/ CombinedStep \/ Return \/ CallX

Spec == Init /\ [][Next]_vars

\* call i of the program has returned; its result is out[i + 2]
Done(i) == ip > i
Res(i) == out[i + 2]
\* the last call to return was one of pointMult, whose locals are still in place
ReturnedFromMult == pc = "idle" /\ ip > 1 /\ prog[ip - 1].op = "pointMult"
LastResult == out[Len(out)]

----------------------------------------------------------------------------
\* C1: for every X with 1 <= X < p, X(pointMult(X, 1)) = X: recovering the
\* result of the ladder for the scalar 1 gives back the X-coordinate it was
\* given; in particular pointMult(9, 1) recovers to 9.
C1_Identity ==
  \A i \in 1..(Len(prog) - 1) :
    (/\ prog[i].op = "pointMult"
     /\ prog[i].n = ScalarOf(1)
     /\ prog[i + 1] = XR(i + 2)
     /\ Done(i + 1)
     /\ out[prog[i].a1].value # Zero)
      => Res(i + 1) = Returned(out[prog[i].a1].value)

C1_Witness ==
  /\ prog = MultProg(ScalarOf(1))
  /\ Done(2)
  /\ out[1].value = FromInt(basePointX)
  /\ Res(2) = Returned(FromInt(9))

\* C4: every call of pointMult executes exactly 255 combined steps, whatever
\* the scalar.
C4_Iterations255 == ReturnedFromMult => iters = 255

\* C7: pointMult has no error path: from its entry to its return it never
\* calls field.inverseOf (the calls made so far are those of the calls of X
\* that have returned), it is always at one of its own positions with the
\* loop index between TopBit and -1 and one combined step made per index
\* passed, and what it returns is a pair of field elements, also when the
\* result is the point at infinity (z = 0).
InPointMult == pc # "idle"
IsRatio(r) == IsFieldElement(r.x) /\ IsFieldElement(r.z)
CallsOfXReturned == Cardinality({i \in 1..(ip - 1) : prog[i].op = "X"})
C7_NoErrorPath ==
  /\ pc \in {"idle", "loop", "step"}
  /\ InPointMult =>
       /\ invCalls = CallsOfXReturned
       /\ t \in (IF pc = "step" THEN 0 ELSE -1)..TopBit
       /\ iters = TopBit - t
  /\ ReturnedFromMult =>
       /\ invCalls = CallsOfXReturned
       /\ IsRatio(LastResult)

C7_Witness ==
  /\ ReturnedFromMult
  /\ LastResult.z = Zero
  /\ n = {255}
  /\ x_1 = Zero
  /\ iters > 0
  /\ invCalls = 0

\* C8: in the iteration for bit t the accumulators (x_2, z_2) and (x_3, z_3)
\* are exchanged, x and z together, exactly when bit t of n differs from the
\* bit of the previous iteration (0 before the first); swap is then bit t; and
\* the pair returned is (x_3, z_3) exactly when bit 0 of n is 1.
PrevBit == IF t = TopBit THEN 0 ELSE Bit(n, t + 1)
Exchanged(s) == Accumulators(s.x_3, s.z_3, s.x_2, s.z_2)
C8_SwapOrdering ==
  [][/\ (pc = "loop" /\ pc' = "step") =>
          /\ acc' = IF Bit(n, t) # PrevBit THEN Exchanged(acc) ELSE acc
          /\ swap' = Bit(n, t)
     /\ (pc = "loop" /\ pc' = "idle") =>
          out'[Len(out')] = IF Bit(n, 0) = 1 THEN Ratio(acc.x_3, acc.z_3)
                                             ELSE Ratio(acc.x_2, acc.z_2)]_vars

\* an exchange caused by a 1 bit followed by a 0 bit, of different accumulators
C8_Witness ==
  /\ pc = "step"
  /\ t < TopBit
  /\ Bit(n, t) = 0
  /\ Bit(n, t + 1) = 1
  /\ acc.x_2 # acc.x_3
  /\ acc.z_2 # acc.z_3

\* C10: while every bit read so far is 0, (x_2, z_2) = (1, 0) and swap = 0 at
\* the head of the loop, whatever X; so pointMult(X, 0) returns (1, 0).
NoBitAbove(k) == \A e \in n : e <= k \/ e > TopBit
C10_LeadingZeros ==
  /\ (pc = "loop" /\ NoBitAbove(t)) =>
        (acc.x_2 = One /\ acc.z_2 = Zero /\ swap = 0)
  /\ (ReturnedFromMult /\ NoBitAbove(-1)) => LastResult = Ratio(One, Zero)

C10_Witness ==
  /\ ReturnedFromMult
  /\ n = {}
  /\ x_1 = FromInt(basePointX)
  /\ iters > 0
  /\ LastResult = Ratio(One, Zero)

----------------------------------------------------------------------------
(***************************************************************************)
(* SpecHomo: pointMult(X, a), X, pointMult(Y, b), X, then pointMult(X, a*b)*)
(* and X.                                                                  *)
(***************************************************************************)
MaxFactor == 3

HomoProg(a, b) ==
  <<PM(1, ScalarOf(a)), XR(3), PM(4, ScalarOf(b)), XR(5),
    PM(1, ScalarOf(a * b)), XR(7)>>

HomoCases ==
  {<<basePointX, a, b>> : a \in 2..MaxFactor, b \in 2..MaxFactor}
    \cup {<<2, 3, 5>>}

InitHomo ==
  \E c \in HomoCases : Start(FromInt(c[1]), NoRatio, HomoProg(c[2], c[3]))

SpecHomo == InitHomo /\ [][Next]_vars

\* C2: for a, b >= 1, with Y the affine value of pointMult(X, a), the affine
\* value of pointMult(Y, b) is that of pointMult(X, a*b), whenever the three
\* recoveries are defined.
C2_ScalarHomomorphism ==
  \A a \in 1..(MaxFactor + 2), b \in 1..(MaxFactor + 2) :
    (/\ prog = HomoProg(a, b)
     /\ Done(6)
     /\ ~Res(2).err /\ ~Res(4).err /\ ~Res(6).err)
      => Res(4) = Res(6)

C2_Witness ==
  /\ prog = HomoProg(3, 5)
  /\ Done(6)
  /\ out[1].value = FromInt(2)
  /\ ~Res(2).err /\ ~Res(4).err /\ ~Res(6).err
  /\ Res(2) # out[1]
  /\ Res(4) # Res(2)
  /\ Res(4) = Res(6)

----------------------------------------------------------------------------
(***************************************************************************)
(* SpecDouble: pointDouble(x, z) and X, then X(x, z), pointMult(., 2), X.  *)
(***************************************************************************)
MaxCoord == 2

DoubleProg == <<PD(2), XR(3), XR(2), PM(5, ScalarOf(2)), XR(6)>>

DoubleRatios ==
  {Ratio(FromInt(a), FromInt(b)) : a \in 0..MaxCoord, b \in 0..MaxCoord}
    \cup {Ratio(Neg(1), FromInt(basePointX)), Ratio(Neg(2), Zero)}

InitDouble == \E r \in DoubleRatios : Start(Zero, r, DoubleProg)

NextDouble == Next \/ CallPointDouble

SpecDouble == InitDouble /\ [][NextDouble]_vars

\* C3: for a ratio (x, z) with z # 0 whose double has a non-zero z, the affine
\* value of pointDouble(x, z) is the affine value of pointMult(X(x, z), 2).
C3_DoublingConsistency ==
  (/\ prog = DoubleProg
   /\ Done(5)
   /\ out[2].z # Zero
   /\ Res(1).z # Zero)
    => /\ ~Res(2).err
       /\ Res(5) = Res(2)

C3_Witness ==
  /\ prog = DoubleProg
  /\ Done(5)
  /\ out[2].z = FromInt(2)
  /\ out[2].x = One
  /\ Res(1).z # Zero
  /\ ~Res(5).err
  /\ Res(5) = Res(2)

C6_DoubleInfinityIsZeroZero ==
  (prog[1].op = "pointDouble" /\ Done(1) /\ out[2].z = Zero)
    => Res(1) = Ratio(Zero, Zero)

\* C6 amended: pointDouble(x, 0) returns (x^4 mod p, 0) for every x, without
\* raising; x' is 0 only when x is.
C6_DoubleInfinity ==
  (prog[1].op = "pointDouble" /\ Done(1) /\ out[2].z = Zero)
    => Res(1) = Ratio(square(square(out[2].x)), Zero)

C6_Witness ==
  /\ prog[1].op = "pointDouble"
  /\ Done(1)
  /\ out[2] = Ratio(FromInt(2), Zero)
  /\ Res(1) = Ratio(FromInt(16), Zero)

----------------------------------------------------------------------------
(***************************************************************************)
(* SpecAdd: pointMult(9, n), pointMult(9, n-1), pointAdd1 and X, then      *)
(* pointMult(9, n+1) and X.                                                *)
(***************************************************************************)
MaxAddN == 3

\* c = <<n-1, n, n+1>> as scalars
AddProg(c) == <<PM(1, c[2]), PM(1, c[1]), PA(3, 4), XR(5), PM(1, c[3]), XR(7)>>

\* n = 1..MaxAddN, and n = 2^200
AddCases ==
  {<<ScalarOf(m - 1), ScalarOf(m), ScalarOf(m + 1)>> : m \in 1..MaxAddN}
    \cup {<<0..199, {200}, {200, 0}>>}

InitAdd == \E c \in AddCases : Start(FromInt(basePointX), NoRatio, AddProg(c))

NextAdd == Next \/ CallPointAdd1

SpecAdd == InitAdd /\ [][NextAdd]_vars

IsAddProg == \E c \in AddCases : prog = AddProg(c)
AddMatches == /\ Res(3).z # Zero
              /\ ~Res(4).err
              /\ Res(4) = Res(6)

\* C9 as stated: for every n >= 1, pointAdd1 on pointMult(9, n) and
\* pointMult(9, n-1) gives a ratio with z # 0 whose affine value is that of
\* pointMult(9, n+1).
C9_AddMatchesLadder ==
  (IsAddProg /\ Done(6) /\ ~Res(6).err) => AddMatches

\* C9 amended: the same for every n for which (n-1)P is not the point at
\* infinity, that is pointMult(9, n-1) has z # 0; this leaves out n = 1.
C9_AddMatchesLadderFrom2 ==
  (IsAddProg /\ Done(6) /\ ~Res(6).err /\ Res(2).z # Zero) => AddMatches

C9_Witness ==
  /\ prog = AddProg(<<ScalarOf(1), ScalarOf(2), ScalarOf(3)>>)
  /\ Done(6)
  /\ Res(2).z # Zero
  /\ ~Res(6).err
  /\ AddMatches
=============================================================================
